---- MODULE Spec2Model ----
(***************************************************************************)
(* Model of MaxContextFinder (src/main.py, src/vram_usage.py): the         *)
(* probing loop find_max_context, the trial runner test_context_size, the  *)
(* retry wrapper retry_on_timeout around run_ollama_query, the rate        *)
(* derivation calculate_tokens_per_second and the memory monitor           *)
(* get_vram_info.                                                          *)
(*                                                                         *)
(* Rates are Python floats in the source.  They are modelled as exact      *)
(* reduced fractions [num, den]; den = 0 stands for float('inf').  On the  *)
(* values enumerated here the float results are exact, so the comparisons  *)
(* of the source and of the model agree.                                   *)
(*                                                                         *)
(* A run starts at the call of run_context_test with its five parameters.  *)
(* The except clause of find_max_context for ollama.ResponseError has no   *)
(* action: every ResponseError raised below it is caught by the for loop   *)
(* of test_context_size first.                                             *)
(***************************************************************************)
EXTENDS Integers, Sequences, FiniteSets, TLC

\* ---------------------------------------------------------------- bounds
\* Largest number of context sizes one run may hand to test_context_size.
MaxSteps == 3

\* ------------------------------------------------------ program constants
\* retry_on_timeout(max_retries=3, ...) as applied to run_ollama_query.
max_retries == 3
\* "vram_percent < 99" in find_max_context.
VramLimitPercent == 99
\* 1e-9 in calculate_tokens_per_second: nanoseconds per second.
NanosPerSecond == 1000000000

\* ------------------------------------------------------------ input sets
StartSizes == {1024, 2048}
StepSizes == {512, 1024}
MinimumTokenRates == {0, 10}
NumTests == {1, 2}
EvalCounts == {0, 5, 10}
EvalDurations == {0, 500000000, 1000000000}
\* (used, total) pairs a vendor tool can report; <<0, 0>> is the value
\* every vendor reader returns when sampling fails.
Readings == {<<0, 0>>, <<1000, 8000>>, <<7920, 8000>>, <<7960, 8000>>}
\* What the environment answers when a vendor tool is probed.
ToolStates == {"absent", "runs", "timeout"}
Env == [nvidia : ToolStates, rocm : ToolStates, radeontop : ToolStates]

\* A GenerateResponse: the attributes calculate_tokens_per_second looks for
\* with hasattr; a response may lack them.
Responses ==
    {[eval_count |-> c, eval_duration |-> d] : c \in EvalCounts, d \in EvalDurations}
        \cup {[eval_count |-> 2], [eval_duration |-> 1000000000]}

\* --------------------------------------------------------------- fractions
RECURSIVE GCD(_, _)
GCD(a, b) == IF b = 0 THEN a ELSE GCD(b, a % b)

Frac(n, d) == LET g == GCD(n, d) IN
    IF g = 0 THEN [num |-> 0, den |-> 1] ELSE [num |-> n \div g, den |-> d \div g]

\* float('inf')
Inf == [num |-> 1, den |-> 0]
\* 0.0
Zero == [num |-> 0, den |-> 1]

FracAdd(f, g) == Frac(f.num * g.den + g.num * f.den, f.den * g.den)

RECURSIVE FracSum(_)
FracSum(s) == IF s = <<>> THEN Zero ELSE FracAdd(Head(s), FracSum(Tail(s)))

\* statistics.mean over a non-empty list
Mean(s) == LET t == FracSum(s) IN Frac(t.num, t.den * Len(s))

\* f >= k and f < k for a rate f and an integer k (inf >= k always)
RateGE(f, k) == IF f.den = 0 THEN TRUE ELSE f.num >= k * f.den
RateLT(f, k) == ~RateGE(f, k)

\* ------------------------------------------------- calculate_tokens_per_second
HasAttr(response, name) == name \in DOMAIN response

EvalCountOf(response) ==
    IF HasAttr(response, "eval_count") THEN response.eval_count ELSE 0

EvalDurationOf(response) ==
    IF HasAttr(response, "eval_duration") THEN response.eval_duration ELSE 1

\* eval_count / (eval_duration * 1e-9) raises ZeroDivisionError when the
\* divisor is 0.0, whatever the numerator.
RaisesZeroDivision(response) == EvalDurationOf(response) = 0

calculate_tokens_per_second(response) ==
    LET g == GCD(NanosPerSecond, EvalDurationOf(response)) IN
    Frac(EvalCountOf(response) * (NanosPerSecond \div g),
         EvalDurationOf(response) \div g)

\* --------------------------------------------------------- memory monitor
\* is_rocm_smi_available: shutil.which may give None, but the second path
\* '/opt/rocm/bin/rocm-smi' is always truthy, so the tool at the first
\* truthy path is run; a missing file raises FileNotFoundError, which is
\* an OSError and not a SubprocessError, so it leaves the function.
is_rocm_smi_available(env) ==
    CASE env.rocm = "runs" -> "True"
      [] env.rocm = "timeout" -> "False"
      [] OTHER -> "FileNotFoundError"

get_gpu_type(env) ==
    IF env.nvidia = "runs" THEN "nvidia"
    ELSE CASE is_rocm_smi_available(env) = "True" -> "amd_rocm"
           [] is_rocm_smi_available(env) = "FileNotFoundError" -> "FileNotFoundError"
           [] OTHER -> IF env.radeontop = "runs" THEN "amd_radeontop" ELSE "None"

\* Variant: the detected type is never stored on the function.
get_vram_info_uncached(cached, env, reading) ==
    LET detected == get_gpu_type(env) IN
    IF detected = "FileNotFoundError"
    THEN [cache |-> "unset", raised |-> TRUE, value |-> <<0, 0>>]
    ELSE [cache |-> "unset", raised |-> FALSE,
          value |-> IF detected = "None" THEN <<0, 0>> ELSE reading]

\* Variant: the vendor readers are only called in the branch that detects.
get_vram_info_stale(cached, env, reading) ==
    LET detected == IF cached = "unset" THEN get_gpu_type(env) ELSE cached IN
    IF detected = "FileNotFoundError"
    THEN [cache |-> "unset", raised |-> TRUE, value |-> <<0, 0>>]
    ELSE [cache |-> detected, raised |-> FALSE,
          value |-> IF detected = "None" \/ cached # "unset" THEN <<0, 0>> ELSE reading]

\* get_vram_info with the cached attribute _gpu_type = cached ("unset" when
\* the attribute does not exist yet).  Gives the new value of the cache,
\* whether the call raised, and the pair returned.
get_vram_info(cached, env, reading) ==
    LET detected == IF cached = "unset" THEN get_gpu_type(env) ELSE cached IN
    IF detected = "FileNotFoundError"
    THEN [cache |-> "unset", raised |-> TRUE, value |-> <<0, 0>>]
    ELSE [cache |-> detected, raised |-> FALSE,
          value |-> IF detected = "None" THEN <<0, 0>> ELSE reading]

\* Every way one call of get_vram_info can end, over all environments.
VramOutcomes(cached) ==
    {get_vram_info(cached, env, reading) : env \in Env, reading \in Readings}

\* (current_vram / max_vram * 100) if max_vram > 0 else 0, compared with a
\* whole number of percent: vram_percent < limit.
VramPercentBelow(used, total, limit) ==
    IF total > 0 THEN used * 100 < limit * total ELSE 0 < limit

\* ------------------------------------------------------ acceptance policy
\* Variant: the rate comparison written with > instead of >=.
is_good_strict(avg, used, total, min_rate) ==
    /\ RateGE(avg, min_rate) /\ avg # [num |-> min_rate, den |-> 1]
    /\ VramPercentBelow(used, total, VramLimitPercent)

\* Variant: only the memory check decides.
is_good_memory_only(avg, used, total, min_rate) ==
    VramPercentBelow(used, total, VramLimitPercent)

is_good(avg, used, total, min_rate) ==
    RateGE(avg, min_rate) /\ VramPercentBelow(used, total, VramLimitPercent)

\* The two reasons find_max_context logs when it stops: "Token rate below
\* minimum threshold" (avg < minimum) and "VRAM usage too high"
\* (vram_percent >= 99).  A step gives no reason to stop when neither holds.
NoReasonToStop(avg, used, total, min_rate) ==
    /\ ~RateLT(avg, min_rate)
    /\ ~(IF total > 0 THEN used * 100 >= VramLimitPercent * total ELSE FALSE)

\* Variant: the last attempt recognised one iteration too late.
LastAttempt_late(a) == a = max_retries

\* "if attempt == max_retries - 1: raise TimeoutError"
LastAttempt(a) == a = max_retries - 1

\* Variant: the size and rate of the step being evaluated are returned.
ReturnValue_current(prev_size, prev_rate, size, avg) == <<size, avg>>

\* "return previous_context_size, previous_tokens_per_second"
ReturnValue(prev_size, prev_rate, size, avg) == <<prev_size, prev_rate>>

\* Variant: the best rate starts at 0.0.
InitialRate_zero == Zero

\* "previous_tokens_per_second = float('inf')"
InitialRate == Inf

\* Variant: an empty list is averaged to the sentinel.
AverageOf_inf(list) == IF list # <<>> THEN Mean(list) ELSE Inf

\* The tail of test_context_size: statistics.mean of the list, or 0.0 when
\* the list is empty.
AverageOf(list) == IF list # <<>> THEN Mean(list) ELSE Zero

\* Variant: the context size is doubled.
NextContextSize_double(size, step) == size * 2

\* "context_size += step_size"
NextContextSize(size, step) == size + step

\* ------------------------------------------------------------------ state
VARIABLES
    pc,                          \* position of the single thread of control
    start_size, step_size, minimum_token_rate, num_tests,  \* arguments
    context_size, previous_context_size, previous_tokens_per_second,
    i, attempt,                  \* loop indices of test_context_size / wrapper
    tokens_per_second_list, current_vram, max_vram,
    avg_tokens_per_second,       \* value returned by test_context_size
    gpu_type,                    \* get_vram_info._gpu_type, "unset" if absent
    result,                      \* value returned by find_max_context
    exc,                         \* exception that ended the run, or "none"
    last_outcome,                \* outcome of the latest generation attempt
    probed,                      \* sizes logged by "Testing context size"
    last_accepted,               \* latest logged step with no reason to stop
    calls,                       \* calls made by the current test_context_size:
                                 \* generate attempts and get_vram_info samples
    stub, run, first             \* test harness around the program (see below)

vars == <<pc, start_size, step_size, minimum_token_rate, num_tests,
          context_size, previous_context_size, previous_tokens_per_second,
          i, attempt, tokens_per_second_list, current_vram, max_vram,
          avg_tokens_per_second, gpu_type, result, exc, last_outcome,
          probed, last_accepted, calls, stub, run, first>>

\* The harness that drives the program: the stubbed collaborators, the
\* number of the run and the outcome of the first run.  No operation of the
\* program reads or writes it.
harness == <<stub, run, first>>
config == <<start_size, step_size, minimum_token_rate, num_tests, harness>>
controller == <<context_size, previous_context_size, previous_tokens_per_second>>
runner == <<i, attempt, tokens_per_second_list, current_vram, max_vram, calls>>

NoCalls == [generate |-> 0, sample |-> 0]
Generated(c) == [c EXCEPT !.generate = @ + 1]
Sampled(c) == [c EXCEPT !.sample = @ + 1]

\* No stub: every call of a collaborator may answer anything.
NoStub == [env |-> "any", backend |-> <<>>, monitor |-> <<>>]
NoOutcome == [pc |-> "none", result |-> <<0, Zero>>, exc |-> "none", probed |-> <<>>]

NoResult == <<0, Zero>>
NoStep == [size |-> 0, mean |-> Zero]

\* The locals of a run before find_max_context is entered.
InitRun ==
    /\ pc = "run_context_test"
    /\ context_size = 0
    /\ previous_context_size = 0
    /\ previous_tokens_per_second = Zero
    /\ i = 0
    /\ attempt = 0
    /\ tokens_per_second_list = <<>>
    /\ current_vram = 0
    /\ max_vram = 0
    /\ avg_tokens_per_second = Zero
    /\ result = NoResult
    /\ exc = "none"
    /\ last_outcome = "none"
    /\ probed = <<>>
    /\ last_accepted = NoStep
    /\ calls = NoCalls

Init ==
    /\ start_size \in StartSizes
    /\ step_size \in StepSizes
    /\ minimum_token_rate \in MinimumTokenRates
    /\ num_tests \in NumTests
    /\ gpu_type = "unset"
    /\ InitRun
    /\ stub = NoStub
    /\ run = 1
    /\ first = NoOutcome

\* An uncaught exception leaves every frame: the run ends without a result.
Crash(e) ==
    /\ pc' = "crashed"
    /\ exc' = e

\* run_context_test calls find_max_context, which initialises its locals.
FindMaxContextEnter ==
    /\ pc = "run_context_test"
    /\ context_size' = start_size
    /\ previous_context_size' = start_size
    /\ previous_tokens_per_second' = InitialRate
    /\ pc' = "while"
    /\ UNCHANGED <<config, runner, avg_tokens_per_second, gpu_type, result,
                   exc, last_outcome, probed, last_accepted>>

\* Top of "while True": test_context_size is called and runs up to its for
\* loop: the initial get_vram_info and the log line that divides
\* current_vram by max_vram without a guard.
TestContextSizeEnter ==
    /\ pc = "while"
    /\ Len(probed) < MaxSteps
    /\ probed' = Append(probed, context_size)
    /\ \E r \in VramOutcomes(gpu_type) :
         /\ gpu_type' = r.cache
         /\ IF r.raised
            THEN /\ Crash("FileNotFoundError")
                 /\ UNCHANGED <<current_vram, max_vram>>
            ELSE /\ current_vram' = r.value[1]
                 /\ max_vram' = r.value[2]
                 /\ IF r.value[2] = 0
                    THEN Crash("ZeroDivisionError in test_context_size")
                    ELSE pc' = "for" /\ UNCHANGED exc
    /\ tokens_per_second_list' = <<>>
    /\ i' = 0
    /\ attempt' = 0
    /\ calls' = Sampled(NoCalls)
    /\ last_outcome' = "none"
    /\ UNCHANGED <<config, controller, avg_tokens_per_second, result, last_accepted>>

\* Variant: a failed trial appends 0.0 to the list of rates.
TrialFailed_zero ==
    /\ i' = i + 1
    /\ attempt' = 0
    /\ calls' = Generated(calls)
    /\ tokens_per_second_list' = Append(tokens_per_second_list, Zero)
    /\ UNCHANGED <<pc, exc, current_vram, max_vram, gpu_type>>

\* The "except (TimeoutError, ollama.ResponseError): continue" of the for
\* loop: the trial is over, the next one starts with a fresh wrapper call.
TrialFailed ==
    /\ i' = i + 1
    /\ attempt' = 0
    /\ calls' = Generated(calls)
    /\ UNCHANGED <<pc, exc, tokens_per_second_list, current_vram, max_vram, gpu_type>>

InTrial == pc = "for" /\ i < num_tests

\* One attempt of the wrapper ends in a timeout.
QueryTimesOut ==
    /\ InTrial
    /\ last_outcome' = "timeout"
    /\ IF LastAttempt(attempt)
       THEN TrialFailed
       ELSE /\ attempt' = attempt + 1
            /\ calls' = Generated(calls)
            /\ UNCHANGED <<pc, exc, i, tokens_per_second_list, current_vram,
                           max_vram, gpu_type>>
    /\ UNCHANGED <<config, controller, avg_tokens_per_second, result, probed, last_accepted>>

\* client.generate raises ollama.ResponseError: the wrapper does not catch
\* it, the for loop of test_context_size does.
QueryResponseError ==
    /\ InTrial
    /\ last_outcome' = "ResponseError"
    /\ TrialFailed
    /\ UNCHANGED <<config, controller, avg_tokens_per_second, result, probed, last_accepted>>

\* client.generate raises ConnectionError: run_ollama_query logs and
\* re-raises; neither test_context_size nor find_max_context catches it.
QueryConnectionError ==
    /\ InTrial
    /\ last_outcome' = "ConnectionError"
    /\ Crash("ConnectionError")
    /\ calls' = Generated(calls)
    /\ UNCHANGED <<config, controller, i, attempt, tokens_per_second_list,
                   current_vram, max_vram, avg_tokens_per_second, gpu_type,
                   result, probed, last_accepted>>

\* client.generate returns a response: the rest of the try block runs.
QueryReturns ==
    /\ InTrial
    /\ last_outcome' = "response"
    /\ \E response \in Responses, r \in VramOutcomes(gpu_type) :
         IF RaisesZeroDivision(response)
         THEN /\ Crash("ZeroDivisionError in calculate_tokens_per_second")
              /\ calls' = Generated(calls)
              /\ UNCHANGED <<i, attempt, tokens_per_second_list, current_vram,
                             max_vram, gpu_type>>
         ELSE /\ tokens_per_second_list' =
                    Append(tokens_per_second_list, calculate_tokens_per_second(response))
              /\ calls' = Sampled(Generated(calls))
              /\ gpu_type' = r.cache
              /\ IF r.raised
                 THEN /\ Crash("FileNotFoundError")
                      /\ UNCHANGED <<i, attempt, current_vram, max_vram>>
                 ELSE /\ current_vram' = r.value[1]
                      /\ max_vram' = r.value[2]
                      /\ IF HasAttr(response, "eval_count") /\ HasAttr(response, "eval_duration")
                         THEN /\ i' = i + 1
                              /\ attempt' = 0
                              /\ UNCHANGED <<pc, exc>>
                         ELSE /\ Crash("AttributeError")
                              /\ UNCHANGED <<i, attempt>>
    /\ UNCHANGED <<config, controller, avg_tokens_per_second, result, probed, last_accepted>>

\* After the for loop: the mean of the collected rates, or 0.0.
TestContextSizeReturn ==
    /\ pc = "for"
    /\ i = num_tests
    /\ avg_tokens_per_second' = AverageOf(tokens_per_second_list)
    /\ pc' = "decide"
    /\ UNCHANGED <<config, controller, runner, gpu_type, result, exc,
                   last_outcome, probed, last_accepted>>

\* The step as logged after "Status:": it becomes the latest accepted step
\* of the log when its values give no reason to stop.
LogStep ==
    last_accepted' =
        IF NoReasonToStop(avg_tokens_per_second, current_vram, max_vram, minimum_token_rate)
        THEN [size |-> context_size, mean |-> avg_tokens_per_second]
        ELSE last_accepted

\* is_good: remember the step and advance.
AcceptStep ==
    /\ pc = "decide"
    /\ is_good(avg_tokens_per_second, current_vram, max_vram, minimum_token_rate)
    /\ LogStep
    /\ previous_context_size' = context_size
    /\ previous_tokens_per_second' = avg_tokens_per_second
    /\ context_size' = NextContextSize(context_size, step_size)
    /\ pc' = "while"
    /\ UNCHANGED <<config, runner, avg_tokens_per_second, gpu_type, result,
                   exc, last_outcome, probed>>

\* not is_good: return the previous values.
RejectStep ==
    /\ pc = "decide"
    /\ ~is_good(avg_tokens_per_second, current_vram, max_vram, minimum_token_rate)
    /\ LogStep
    /\ result' = ReturnValue(previous_context_size, previous_tokens_per_second,
                             context_size, avg_tokens_per_second)
    /\ pc' = "returned"
    /\ UNCHANGED <<config, controller, runner, avg_tokens_per_second, gpu_type,
                   exc, last_outcome, probed>>

\* run_context_test logs the FINAL RESULTS block.
LogFinalResults ==
    /\ pc = "returned"
    /\ pc' = "done"
    /\ UNCHANGED <<config, controller, runner, avg_tokens_per_second, gpu_type,
                   result, exc, last_outcome, probed, last_accepted>>

Next ==
    \/ FindMaxContextEnter
    \/ TestContextSizeEnter
    \/ QueryTimesOut
    \/ QueryResponseError
    \/ QueryConnectionError
    \/ QueryReturns
    \/ TestContextSizeReturn
    \/ AcceptStep
    \/ RejectStep
    \/ LogFinalResults

Spec == Init /\ [][Next]_vars

\* ------------------------------------------------- two runs under stubs
\* The harness runs the program twice with the same arguments against a
\* stubbed backend and stubbed vendor tools whose answers are a function of
\* the context size.  The answer for a size is fixed the first time the size
\* is probed.
StubResponses ==
    {[eval_count |-> 5, eval_duration |-> 1000000000],
     [eval_count |-> 10, eval_duration |-> 1000000000],
     [eval_count |-> 10, eval_duration |-> 500000000],
     [eval_count |-> 5, eval_duration |-> 0]}

StubBackend ==
    {[kind |-> k, response |-> [eval_count |-> 0, eval_duration |-> 0]] :
        k \in {"timeout", "ResponseError", "ConnectionError"}}
    \cup {[kind |-> "response", response |-> r] : r \in StubResponses}

\* One environment for each result of get_gpu_type.
StubEnvs ==
    {[nvidia |-> "runs", rocm |-> "absent", radeontop |-> "absent"],
     [nvidia |-> "absent", rocm |-> "runs", radeontop |-> "absent"],
     [nvidia |-> "absent", rocm |-> "timeout", radeontop |-> "runs"],
     [nvidia |-> "absent", rocm |-> "timeout", radeontop |-> "absent"],
     [nvidia |-> "absent", rocm |-> "absent", radeontop |-> "absent"]}

\* Readings with a total, which the log line of the initial sample accepts.
InitialReadings == {<<1000, 8000>>, <<7920, 8000>>}

HarnessInit ==
    /\ start_size = 1024
    /\ step_size = 1024
    /\ minimum_token_rate \in MinimumTokenRates
    /\ num_tests \in NumTests
    /\ gpu_type = "unset"
    /\ InitRun
    /\ stub \in {[env |-> e, backend |-> <<>>, monitor |-> <<>>] : e \in StubEnvs}
    /\ run = 1
    /\ first = NoOutcome

Stubbed == context_size \in DOMAIN stub.backend

\* The stubs are given their answers for the size about to be probed.
StubAnswers ==
    /\ pc = "while"
    /\ Len(probed) < MaxSteps
    /\ ~Stubbed
    /\ \E b \in StubBackend, m \in Readings :
         stub' = [stub EXCEPT
                    !.backend = [z \in DOMAIN stub.backend \cup {context_size} |->
                                   IF z = context_size THEN b ELSE stub.backend[z]],
                    !.monitor = [z \in DOMAIN stub.monitor \cup {context_size} |->
                                   IF z = context_size THEN m ELSE stub.monitor[z]]]
    /\ UNCHANGED <<pc, start_size, step_size, minimum_token_rate, num_tests,
                   controller, runner, avg_tokens_per_second, gpu_type, result,
                   exc, last_outcome, probed, last_accepted, run, first>>

\* The call of get_vram_info made in this step ended as r.
SampleIs(r) ==
    /\ gpu_type' = r.cache
    /\ IF r.raised
       THEN exc' = "FileNotFoundError"
       ELSE /\ exc' # "FileNotFoundError"
            /\ <<current_vram', max_vram'>> = r.value

\* test_context_size is entered; the vendor tools answer the initial
\* sample with one of the given readings.
StubbedEnter(readings) ==
    /\ Stubbed
    /\ TestContextSizeEnter
    /\ \E reading \in readings : SampleIs(get_vram_info(gpu_type, stub.env, reading))

\* One generation attempt, answered by the stubbed backend, and the sample
\* after it, answered by the stubbed vendor tools.
StubbedQuery ==
    /\ Stubbed
    /\ LET b == stub.backend[context_size] IN
       CASE b.kind = "timeout" -> QueryTimesOut
         [] b.kind = "ResponseError" -> QueryResponseError
         [] b.kind = "ConnectionError" -> QueryConnectionError
         [] OTHER ->
              /\ QueryReturns
              /\ IF RaisesZeroDivision(b.response)
                 THEN exc' = "ZeroDivisionError in calculate_tokens_per_second"
                 ELSE /\ exc' # "ZeroDivisionError in calculate_tokens_per_second"
                      /\ tokens_per_second_list' =
                            Append(tokens_per_second_list,
                                   calculate_tokens_per_second(b.response))
                      /\ SampleIs(get_vram_info(gpu_type, stub.env,
                                                stub.monitor[context_size]))

Outcome == [pc |-> pc, result |-> result, exc |-> exc, probed |-> probed]

RunOver == pc \in {"done", "crashed"}

\* The first run is over and the second starts, with the same arguments and
\* stubs, in the same process (the cached vendor type is kept) or in a new
\* one.
SecondRun ==
    /\ run = 1
    /\ RunOver
    /\ first' = Outcome
    /\ run' = 2
    /\ gpu_type' \in {gpu_type, "unset"}
    /\ pc' = "run_context_test"
    /\ context_size' = 0
    /\ previous_context_size' = 0
    /\ previous_tokens_per_second' = Zero
    /\ i' = 0
    /\ attempt' = 0
    /\ tokens_per_second_list' = <<>>
    /\ current_vram' = 0
    /\ max_vram' = 0
    /\ avg_tokens_per_second' = Zero
    /\ result' = NoResult
    /\ exc' = "none"
    /\ last_outcome' = "none"
    /\ probed' = <<>>
    /\ last_accepted' = NoStep
    /\ calls' = NoCalls
    /\ UNCHANGED <<start_size, step_size, minimum_token_rate, num_tests, stub>>

\* Both runs get every memory sample from the stub.
StubbedNext ==
    \/ FindMaxContextEnter
    \/ StubAnswers
    \/ StubbedEnter({stub.monitor[context_size]})
    \/ StubbedQuery
    \/ TestContextSizeReturn
    \/ AcceptStep
    \/ RejectStep
    \/ LogFinalResults
    \/ SecondRun

StubbedSpec == HarnessInit /\ [][StubbedNext]_vars

\* As StubbedNext, but the initial sample of a step may be any reading
\* with a total.
FreeInitialSampleNext ==
    \/ FindMaxContextEnter
    \/ StubAnswers
    \/ StubbedEnter(InitialReadings)
    \/ StubbedQuery
    \/ TestContextSizeReturn
    \/ AcceptStep
    \/ RejectStep
    \/ LogFinalResults
    \/ SecondRun

FreeInitialSampleSpec == HarnessInit /\ [][FreeInitialSampleNext]_vars

\* ================================================================ claims
Returned == pc \in {"returned", "done"}

\* memory_percent = used/total*100 if total > 0 else 0, and memory_percent < 99
MemoryPercentBelow99(used, total) ==
    IF total > 0 THEN used * 100 < 99 * total ELSE TRUE

\* The acceptance policy as stated: mean >= minimum and memory_percent < 99.
Policy(mean, used, total, min_rate) ==
    /\ (mean.den = 0 \/ mean.num >= min_rate * mean.den)
    /\ MemoryPercentBelow99(used, total)

\* C1: whenever find_max_context has returned, the returned pair is the
\* size and mean rate of the last step that satisfied the acceptance
\* policy; when no step satisfied it, the returned size is start_size.
C1_ReturnsLastAccepted ==
    Returned =>
        IF last_accepted = NoStep
        THEN result[1] = start_size
        ELSE result = <<last_accepted.size, last_accepted.mean>>

\* C1 witness: a run returned after accepting at least one step.
C1_Witness ==
    /\ pc = "returned"
    /\ last_accepted # NoStep
    /\ result[1] = start_size + step_size

\* C2: every evaluated step is accepted (recorded as best, context size
\* advanced by step_size) exactly when the policy holds of its mean and
\* memory reading; otherwise the run stops and no further size is probed.
C2_AcceptIffPolicy ==
    [][/\ pc = "decide" =>
            IF Policy(avg_tokens_per_second, current_vram, max_vram, minimum_token_rate)
            THEN /\ pc' = "while"
                 /\ previous_context_size' = context_size
                 /\ previous_tokens_per_second' = avg_tokens_per_second
                 /\ context_size' = context_size + step_size
            ELSE /\ pc' = "returned"
                 /\ UNCHANGED <<controller, probed>>
       /\ Returned => probed' = probed]_vars

\* C2 witness: a first step accepted with a mean equal to the minimum, then
\* a step with a mean above the minimum rejected at exactly 99 percent.
C2_Witness ==
    /\ pc = "returned"
    /\ minimum_token_rate = 10
    /\ result = <<start_size, [num |-> 10, den |-> 1]>>
    /\ avg_tokens_per_second = [num |-> 20, den |-> 1]
    /\ max_vram > 0
    /\ current_vram * 100 = 99 * max_vram

\* C3: the sizes handed to test_context_size are start, start + step,
\* start + 2*step, ... in that order, the size under evaluation is the last
\* of them, and the rejected size stays the last one probed.
C3_ArithmeticSequence ==
    /\ \A k \in 1..Len(probed) : probed[k] = start_size + (k - 1) * step_size
    /\ pc \in {"for", "decide", "returned", "done"} =>
           /\ probed # <<>>
           /\ context_size = probed[Len(probed)]

\* C3 witness: a run rejected at its third size, with a step that differs
\* from the start.
C3_Witness ==
    /\ pc = "returned"
    /\ Len(probed) = 3
    /\ step_size # start_size



\* A generation attempt ended in an error that is not a timeout.
FatalErrorRaised == QueryResponseError \/ QueryConnectionError

\* C4: a backend response error or a connectivity error raised during a
\* trial stops the controller at once: no further trial, no further step,
\* and the best size and rate known so far are returned.
C4_FatalErrorStops ==
    [][FatalErrorRaised =>
          /\ pc' = "returned"
          /\ result' = <<previous_context_size, previous_tokens_per_second>>]_vars

\* C5: a zero reading (0.0, 0.0) of the memory monitor never ends the run:
\* the run is not left by the division of the initial sample's log line.
C5_ZeroReadingNotFatal ==
    ~(/\ pc = "crashed"
      /\ <<current_vram, max_vram>> = <<0, 0>>
      /\ exc = "ZeroDivisionError in test_context_size")

\* C6: the rate derivation never divides by zero: a response whose compute
\* time is zero does not abort the step or the run.
C6_NoDivisionByZero ==
    ~(pc = "crashed" /\ exc = "ZeroDivisionError in calculate_tokens_per_second")

\* C7 as stated: for every minimum_token_rate, a step all of whose trials
\* failed has a mean of exactly 0 and is rejected, and the run returns the
\* previous step's results.
C7_AllFailedRejected ==
    [][pc = "decide" /\ tokens_per_second_list = <<>> =>
          /\ avg_tokens_per_second = Zero
          /\ pc' = "returned"
          /\ result' = <<previous_context_size, previous_tokens_per_second>>]_vars

\* C7 amended: for a minimum_token_rate above 0, a step all of whose trials
\* failed has a mean of exactly 0 and is rejected, and the run returns the
\* previous step's results; for any minimum_token_rate the mean is 0.
C7_AllFailedRejectedPositiveMinimum ==
    [][pc = "decide" /\ tokens_per_second_list = <<>> =>
          /\ avg_tokens_per_second = Zero
          /\ minimum_token_rate > 0 =>
                 /\ pc' = "returned"
                 /\ result' = <<previous_context_size, previous_tokens_per_second>>]_vars

\* C7 witness: the second step of a run had all its trials fail under a
\* positive minimum, and the run returned the first step's results.
C7_Witness ==
    /\ pc = "returned"
    /\ minimum_token_rate > 0
    /\ Len(probed) = 2
    /\ tokens_per_second_list = <<>>
    /\ avg_tokens_per_second = Zero
    /\ result = <<start_size, previous_tokens_per_second>>
    /\ previous_tokens_per_second # Inf

\* C8: a run whose very first step is rejected returns (start_size, inf),
\* and the best rate is the sentinel for as long as no step was accepted.
C8_FirstStepRejectedSentinel ==
    /\ Returned /\ Len(probed) = 1 => result = <<start_size, Inf>>
    /\ pc # "run_context_test" /\ last_accepted = NoStep =>
           previous_tokens_per_second = Inf
    /\ pc # "run_context_test" /\ last_accepted # NoStep =>
           previous_tokens_per_second # Inf

\* C8 witness: the first step measured a rate of 5 below the minimum and
\* the run returned.
C8_Witness ==
    /\ pc = "returned"
    /\ Len(probed) = 1
    /\ avg_tokens_per_second = [num |-> 5, den |-> 1]
    /\ result = <<start_size, Inf>>

\* C9: every run that started probing and has ended logged the final
\* summary: no run ends by an exception that leaves run_context_test
\* before the summary.
C9_SummaryAlwaysLogged ==
    probed # <<>> => pc # "crashed"

\* C10: within a trial the attempt index stays below max_retries, it
\* advances only after a timeout, an error that is not a timeout ends the
\* trial at once, and after the last timeout the trial is over while the
\* step goes on with the next trial and the controller state is untouched.
C10_RetryOnTimeoutOnly ==
    [][InTrial =>
          /\ attempt < max_retries
          /\ (i' = i /\ attempt' # attempt) =>
                 /\ last_outcome' = "timeout"
                 /\ attempt' = attempt + 1
                 /\ attempt' < max_retries
          /\ last_outcome' \in {"ResponseError", "ConnectionError"} =>
                 \/ i' = i + 1 /\ attempt' = 0
                 \/ pc' = "crashed" /\ UNCHANGED <<i, attempt>>
          /\ (last_outcome' = "timeout" /\ attempt = max_retries - 1) =>
                 /\ i' = i + 1
                 /\ attempt' = 0
                 /\ pc' = "for"
                 /\ UNCHANGED <<controller, tokens_per_second_list, result>>]_vars

\* C10 witness: the first trial of a step used up its attempts on timeouts
\* and the second trial is about to start.
C10_Witness ==
    /\ pc = "for"
    /\ num_tests = 2
    /\ i = 1
    /\ attempt = 0
    /\ last_outcome = "timeout"
    /\ tokens_per_second_list = <<>>

\* The controller is in its loop (PROBING and ACCEPTED-STEP).
Probing == pc \in {"while", "for", "decide"}

\* The current trial fails: a timeout on the last attempt, or an error of
\* the backend.
TrialFails(next_outcome) ==
    \/ next_outcome = "timeout" /\ attempt = max_retries - 1
    \/ next_outcome \in {"ResponseError", "ConnectionError"}

\* C12: the controller leaves its loop only by a rejected step or by a
\* fatal backend error, and every such stop yields the outcome (best size,
\* best rate).
C12_StopsOnlyByRuleWithOutcome ==
    [][Probing /\ ~Probing' =>
          /\ RejectStep \/ FatalErrorRaised
          /\ pc' = "returned"
          /\ result' = <<previous_context_size, previous_tokens_per_second>>]_vars

\* C13: every call of test_context_size makes exactly num_tests trials: a
\* trial that fails is followed by the next trial, and the for loop is left
\* only after num_tests trials, with a step result.
C13_ExactlyNumTestsTrials ==
    [][/\ InTrial /\ TrialFails(last_outcome') => pc' = "for" /\ i' = i + 1
       /\ pc = "for" /\ pc' # "for" => i = num_tests /\ pc' = "decide"]_vars

\* C14: after every trial, failed or not, get_vram_info is called, so the
\* reading handed to the controller is the sample taken after the last
\* trial.
C14_SampleAfterEveryTrial ==
    [][InTrial /\ i' = i + 1 => calls'.sample = calls.sample + 1]_vars

\* C16: get_vram_info never raises, whatever vendor detection and the
\* vendor tool do.
C16_GetVramInfoNeverRaises ==
    exc # "FileNotFoundError"

\* A call of get_vram_info is made in this step.
SampleTaken ==
    \/ pc = "while" /\ probed' # probed
    \/ calls'.sample = calls.sample + 1

\* C17: vendor detection runs at the first sample only: a sample that
\* returns leaves its result cached, a cached result (the result "no tool"
\* included) never changes again, and with the result "no tool" every
\* sample returns (0.0, 0.0).
C17_DetectOnceAndReuse ==
    [][/\ gpu_type # "unset" => gpu_type' = gpu_type
       /\ SampleTaken /\ exc' # "FileNotFoundError" => gpu_type' # "unset"
       /\ SampleTaken /\ gpu_type' = "None" => <<current_vram', max_vram'>> = <<0, 0>>
       /\ ~SampleTaken => gpu_type' = gpu_type]_vars

\* C17 witness: a second step is being decided with a vendor detected at
\* the first sample of the run, five samples earlier.
C17_Witness ==
    /\ pc = "decide"
    /\ Len(probed) = 2
    /\ num_tests = 2
    /\ calls.sample = 3
    /\ gpu_type \in {"nvidia", "amd_rocm", "amd_radeontop"}

\* Sum of a list of rates as an unreduced fraction <<numerator, denominator>>.
RECURSIVE RateTotal(_)
RateTotal(s) ==
    IF s = <<>> THEN <<0, 1>>
    ELSE LET t == RateTotal(Tail(s)) IN
         <<Head(s).num * t[2] + t[1] * Head(s).den, Head(s).den * t[2]>>

\* avg is the arithmetic mean of the rates in s.
IsMeanOf(avg, s) ==
    avg.num * RateTotal(s)[2] * Len(s) = RateTotal(s)[1] * avg.den

\* C18 as stated: the mean of a step is the mean of the rates of its
\* successful trials, and it is 0 only when no trial succeeded.
C18_MeanOfSuccessfulTrials ==
    pc = "decide" =>
        /\ tokens_per_second_list # <<>> => IsMeanOf(avg_tokens_per_second, tokens_per_second_list)
        /\ avg_tokens_per_second = Zero <=> tokens_per_second_list = <<>>

\* C18 amended: a failed trial adds nothing to the list of rates and a
\* successful trial adds its rate; the mean of the step is the mean of that
\* list, and it is 0 only when no trial succeeded or every successful trial
\* had a rate of 0.
C18_MeanOfSuccessfulTrialsOrZeroRates ==
    [][/\ InTrial /\ TrialFails(last_outcome') /\ pc' = "for" =>
              tokens_per_second_list' = tokens_per_second_list
       /\ InTrial /\ i' = i + 1 /\ last_outcome' = "response" =>
              Len(tokens_per_second_list') = Len(tokens_per_second_list) + 1
       /\ pc = "for" /\ pc' = "decide" =>
              /\ tokens_per_second_list # <<>> =>
                     IsMeanOf(avg_tokens_per_second', tokens_per_second_list)
              /\ tokens_per_second_list = <<>> => avg_tokens_per_second' = Zero
              /\ avg_tokens_per_second' = Zero =>
                     \A k \in 1..Len(tokens_per_second_list) :
                         tokens_per_second_list[k] = Zero]_vars

\* C18 witness: a step of two trials, one failed and one with rate 10, has
\* the mean 10.
C18_Witness ==
    /\ pc = "decide"
    /\ num_tests = 2
    /\ tokens_per_second_list = <<[num |-> 10, den |-> 1]>>
    /\ avg_tokens_per_second = [num |-> 10, den |-> 1]

\* C19: while the controller is in its loop, either no step was accepted
\* and (best size, best rate, context size) = (start, inf, start), or the
\* best size is one step below the context size and the best rate is a
\* finite mean >= minimum_token_rate; so a returned outcome has a rate >=
\* the minimum and, after an acceptance, a size one step below the size the
\* run stopped at.
C19_ControllerInvariant ==
    /\ Probing =>
          \/ /\ last_accepted = NoStep
             /\ previous_context_size = start_size
             /\ previous_tokens_per_second = Inf
             /\ context_size = start_size
          \/ /\ last_accepted # NoStep
             /\ previous_context_size = context_size - step_size
             /\ previous_tokens_per_second.den # 0
             /\ previous_tokens_per_second.num >=
                    minimum_token_rate * previous_tokens_per_second.den
    /\ Returned =>
          /\ result[2].den = 0 \/ result[2].num >= minimum_token_rate * result[2].den
          /\ last_accepted # NoStep => result[1] = context_size - step_size

\* C19 witness: a run returned at its third size with the second size as
\* the outcome.
C19_Witness ==
    /\ pc = "returned"
    /\ Len(probed) = 3
    /\ minimum_token_rate = 10
    /\ result[1] = start_size + step_size
    /\ result[2].den # 0

\* C20: a call of test_context_size ends after at least num_tests and at
\* most num_tests * max_retries generation attempts, and the controller
\* state does not change while its trials run.
C20_AttemptsPerStepBounded ==
    [][/\ pc = "for" /\ pc' # "for" =>
              /\ calls'.generate >= num_tests
              /\ calls'.generate <= num_tests * max_retries
       /\ pc = "for" => UNCHANGED controller]_vars

\* C11: two runs with the same arguments against stubs whose answers are a
\* function of the context size probe the same sizes and end with the same
\* outcome, whether or not the second run inherits the cached vendor type.
C11_TwoRunsSameOutcome ==
    run = 2 =>
        /\ Len(probed) <= Len(first.probed)
        /\ \A k \in 1..Len(probed) : probed[k] = first.probed[k]
        /\ RunOver => Outcome = first

\* C11 witness: the second run has returned the outcome of a first run
\* that accepted a step.
C11_Witness ==
    /\ run = 2
    /\ pc = "done"
    /\ Len(first.probed) >= 2
    /\ first.pc = "done"
    /\ result = first.result

\* C15: the accept/reject decisions of a step do not depend on the value
\* of the sample taken before its first trial: two runs that differ only
\* in their initial samples, and both return, probe the same sizes and
\* return the same outcome.
C15_InitialSampleNotInDecision ==
    (run = 2 /\ pc = "returned" /\ first.pc = "done") =>
        /\ probed = first.probed
        /\ result = first.result

====
